---- MODULE Spec2Model ----
(***************************************************************************)
(* A model of tex_parser.file.file_system.FileSystem: nine static methods  *)
(* over the host filesystem.  The filesystem is the only state there is;   *)
(* the model keeps it as a map from paths to objects, together with a      *)
(* record of the last call: its name and arguments, what the OS refused    *)
(* during it, its outcome, the OS library calls it made, the file handles  *)
(* it left open and the filesystem as it was when the call started.  When  *)
(* two callers run create_directory at once, `callers` holds how far each  *)
(* of them has got.                                                        *)
(*                                                                         *)
(* A path is a sequence of components relative to the working directory,   *)
(* which always exists and is a directory.                                 *)
(***************************************************************************)
EXTENDS Integers, Sequences, FiniteSets, TLC

VARIABLES fs, before, op, arg, flag, fault, result, calls, handles, callers

vars == <<fs, before, op, arg, flag, fault, result, calls, handles, callers>>

(***************************************************************************)
(* Bounds of the model.                                                    *)
(***************************************************************************)
MaxDepth == 3
MaxObjects == 4
MaxLen == 4

Names == {"a", "b"}

Paths == UNION {[1..n -> Names] : n \in 1..MaxDepth}

TopPaths == {p \in Paths : Len(p) = 1}

(* Sample bytes: ASCII, continuation bytes on either side of the 0x90 and  *)
(* 0xA0 limits, and lead bytes at the edges of every class.                *)
Bytes == {65, 128, 160, 193, 194, 224, 237, 240, 244, 245}

RECURSIVE SeqsUpTo(_, _)
SeqsUpTo(S, n) ==
    IF n = 0 THEN {<<>>}
    ELSE LET shorter == SeqsUpTo(S, n - 1)
         IN  shorter \cup {Append(s, b) : s \in {t \in shorter : Len(t) = n - 1}, b \in S}

Contents == SeqsUpTo(Bytes, MaxLen)

(* The contents the fixtures of the tree-level specification write: one    *)
(* that decodes and one that does not.                                     *)
SampleContents == {<<65>>, <<128>>}

MTime == 1682000000

(***************************************************************************)
(* The filesystem.                                                         *)
(***************************************************************************)
Cwd == <<>>

Front(p) == SubSeq(p, 1, Len(p) - 1)

IsPrefix(d, p) == Len(d) <= Len(p) /\ SubSeq(p, 1, Len(d)) = d

FileNode(data) == [kind |-> "file", data |-> data, mtime |-> MTime]
DirNode == [kind |-> "dir", data |-> <<>>, mtime |-> MTime]
OtherNode == [kind |-> "other", data |-> <<>>, mtime |-> MTime]

EmptyFs == [p \in {} |-> DirNode]

Children(f, d) == {q \in DOMAIN f : Len(q) = Len(d) + 1 /\ Front(q) = d}

Subtree(f, d) == {q \in DOMAIN f : IsPrefix(d, q)}

Remove(f, R) == [q \in (DOMAIN f) \ R |-> f[q]]

(* stat(2): resolves the path one component at a time.                     *)
RECURSIVE Stat(_, _)
Stat(f, p) ==
    IF p = Cwd THEN "dir"
    ELSE LET parent == Stat(f, Front(p))
         IN  IF parent = "ENOENT" \/ parent = "ENOTDIR" THEN parent
             ELSE IF parent # "dir" THEN "ENOTDIR"
             ELSE IF p \in DOMAIN f THEN f[p].kind
             ELSE "ENOENT"

StatFails(f, p) == Stat(f, p) \in {"ENOENT", "ENOTDIR"}

(***************************************************************************)
(* Outcomes of a call.                                                     *)
(***************************************************************************)
Return(v) == [tag |-> "return", val |-> v]
Raise(e) == [tag |-> e, val |-> FALSE]

(***************************************************************************)
(* The three predicates.  Each is one os.path call.                        *)
(***************************************************************************)
(* A slip: the kind check made with os.path.exists.                        *)
is_file_impl_exists(f, p) ==
    [val |-> ~StatFails(f, p), calls |-> <<"os.path.isfile">>]

is_file_impl(f, p) ==
    [val |-> Stat(f, p) = "file", calls |-> <<"os.path.isfile">>]

(* A slip: an existence probe ahead of the kind probe.                     *)
is_directory_impl_two_calls(f, p) ==
    [val |-> ~StatFails(f, p) /\ Stat(f, p) = "dir",
     calls |-> <<"os.path.exists", "os.path.isdir">>]

is_directory_impl(f, p) ==
    [val |-> Stat(f, p) = "dir", calls |-> <<"os.path.isdir">>]

(* A slip: existence decided with os.path.isfile.                         *)
is_object_impl_isfile(f, p) ==
    [val |-> Stat(f, p) = "file", calls |-> <<"os.path.exists">>]

is_object_impl(f, p) ==
    [val |-> ~StatFails(f, p), calls |-> <<"os.path.exists">>]

NoFault == "ok"

Query(name, p, inc, flt, res, cs, h) ==
    /\ op' = name
    /\ arg' = p
    /\ flag' = inc
    /\ fault' = flt
    /\ result' = res
    /\ calls' = cs
    /\ handles' = h
    /\ before' = fs
    /\ fs' = fs
    /\ callers' = callers

is_file(p) ==
    LET r == is_file_impl(fs, p)
    IN  Query("is_file", p, FALSE, NoFault, Return(r.val), r.calls, 0)

is_directory(p) ==
    LET r == is_directory_impl(fs, p)
    IN  Query("is_directory", p, FALSE, NoFault, Return(r.val), r.calls, 0)

is_object(p) ==
    LET r == is_object_impl(fs, p)
    IN  Query("is_object", p, FALSE, NoFault, Return(r.val), r.calls, 0)

(***************************************************************************)
(* get_file_size: the kind check, then os.path.getsize.                    *)
(***************************************************************************)
getsize(f, p) == Len(f[p].data)

get_file_size_impl(f, p) ==
    LET chk == is_file_impl(f, p)
    IN  IF ~chk.val
        THEN [res |-> Raise("FileNotFoundError"), calls |-> chk.calls]
        ELSE [res |-> Return(getsize(f, p)),
              calls |-> chk.calls \o <<"os.path.getsize">>]

get_file_size(p) ==
    LET r == get_file_size_impl(fs, p)
    IN  Query("get_file_size", p, FALSE, NoFault, r.res, r.calls, 0)

(***************************************************************************)
(* get_file_timestamp: the kind check, then os.stat, int() of st_mtime and *)
(* the ISO 8601 rendering in UTC, kept here as the six numbers the string  *)
(* is made of (the offset is always +00:00).                               *)
(***************************************************************************)
isoformat(secs) ==
    LET days == secs \div 86400
        rem == secs % 86400
        z == days + 719468
        era == z \div 146097
        doe == z - era * 146097
        yoe == (doe - doe \div 1460 + doe \div 36524 - doe \div 146096) \div 365
        doy == doe - (365 * yoe + yoe \div 4 - yoe \div 100)
        mp == (5 * doy + 2) \div 153
        d == doy - (153 * mp + 2) \div 5 + 1
        m == IF mp < 10 THEN mp + 3 ELSE mp - 9
        y == yoe + era * 400 + (IF m <= 2 THEN 1 ELSE 0)
    IN  <<y, m, d, rem \div 3600, (rem % 3600) \div 60, rem % 60>>

get_file_timestamp_impl(f, p) ==
    LET chk == is_file_impl(f, p)
    IN  IF ~chk.val
        THEN [res |-> Raise("FileNotFoundError"), calls |-> chk.calls]
        ELSE [res |-> Return(isoformat(f[p].mtime)),
              calls |-> chk.calls \o <<"os.stat">>]

get_file_timestamp(p) ==
    LET r == get_file_timestamp_impl(fs, p)
    IN  Query("get_file_timestamp", p, FALSE, NoFault, r.res, r.calls, 0)

(***************************************************************************)
(* create_directory: the existence check, then os.makedirs(exist_ok=False).*)
(* makedirs creates the missing ancestors from the top down, one mkdir(2)  *)
(* each.  The OS may refuse a mkdir (permissions, a full disk): `refuse`   *)
(* is the path at which it does, Cwd when it refuses nothing.              *)
(***************************************************************************)
mkdir(f, q, refuse) ==
    LET parent == Stat(f, Front(q))
    IN  IF parent = "ENOENT" THEN [fs |-> f, err |-> "FileNotFoundError"]
        ELSE IF parent # "dir" THEN [fs |-> f, err |-> "NotADirectoryError"]
        ELSE IF q \in DOMAIN f THEN [fs |-> f, err |-> "FileExistsError"]
        ELSE IF q = refuse THEN [fs |-> f, err |-> "PermissionError"]
        ELSE [fs |-> f @@ (q :> DirNode), err |-> "none"]

(* A slip: os.mkdir in place of os.makedirs.                              *)
mkdir_only(f, name, refuse) == mkdir(f, name, refuse)

RECURSIVE makedirs(_, _, _)
makedirs(f, name, refuse) ==
    LET head == Front(name)
        up == IF head # Cwd /\ StatFails(f, head)
              THEN makedirs(f, head, refuse)
              ELSE [fs |-> f, err |-> "none"]
    IN  IF up.err \notin {"none", "FileExistsError"} THEN up
        ELSE mkdir(up.fs, name, refuse)

(* A slip: no existence check, os.makedirs left to find the object.       *)
create_directory_unchecked(f, p, refuse) ==
    LET m == makedirs(f, p, refuse)
    IN  [fs |-> m.fs,
         res |-> IF m.err = "none" THEN Return(FALSE) ELSE Raise("OSError"),
         calls |-> <<"os.makedirs">>]

create_directory_impl(f, p, refuse) ==
    LET chk == is_object_impl(f, p)
    IN  IF chk.val
        THEN [fs |-> f, res |-> Raise("FileExistsError"), calls |-> chk.calls]
        ELSE LET m == makedirs(f, p, refuse)
             IN  [fs |-> m.fs,
                  res |-> IF m.err = "none" THEN Return(FALSE) ELSE Raise("OSError"),
                  calls |-> chk.calls \o <<"os.makedirs">>]

Prefixes(p) == {SubSeq(p, 1, n) : n \in 1..Len(p)}

(* The components a makedirs of p has to create: the OS can refuse only    *)
(* those.                                                                  *)
MissingPrefixes(f, p) == {q \in Prefixes(p) : q \notin DOMAIN f}

create_directory(p, refuse) ==
    LET r == create_directory_impl(fs, p, refuse)
    IN  /\ Cardinality(DOMAIN r.fs) <= MaxObjects
        /\ fs' = r.fs
        /\ before' = fs
        /\ callers' = callers
        /\ op' = "create_directory"
        /\ arg' = p
        /\ flag' = FALSE
        /\ fault' = refuse
        /\ result' = r.res
        /\ calls' = r.calls
        /\ handles' = 0

(***************************************************************************)
(* remove_directory: the kind check, then shutil.rmtree.  rmtree deletes   *)
(* the contents depth first and the directory last; when the OS refuses a  *)
(* deletion it raises at once and what was deleted so far stays deleted.   *)
(* RmtreeOutcomes is every set of paths a run can have deleted: the whole  *)
(* subtree on success, a part of it that leaves the directory on failure.  *)
(***************************************************************************)
FullRemoval(f, d) == Subtree(f, d)

RECURSIVE PartialRemovals(_, _)
PartialRemovals(f, d) ==
    LET ch == Children(f, d)
    IN  UNION { LET done == UNION {Subtree(f, c) : c \in S}
                    inside == UNION {PartialRemovals(f, c) :
                                       c \in {x \in ch \ S : f[x].kind = "dir"}}
                IN  {done} \cup {done \cup X : X \in inside}
                : S \in SUBSET ch }

RmtreeOutcomes(f, d) ==
    IF Stat(f, d) = "dir" THEN {FullRemoval(f, d)} \cup PartialRemovals(f, d)
    ELSE {{}}

(* A slip: shutil.rmtree(..., ignore_errors=True).                        *)
rmtree_ignore_errors(f, d, R) == [fs |-> Remove(f, R), err |-> "none"]

rmtree(f, d, R) ==
    [fs |-> Remove(f, R), err |-> IF d \in R THEN "none" ELSE "OSError"]

remove_directory_impl(f, p, R) ==
    LET chk == is_directory_impl(f, p)
    IN  IF ~chk.val
        THEN [fs |-> f, res |-> Raise("FileNotFoundError"), calls |-> chk.calls]
        ELSE LET m == rmtree(f, p, R)
             IN  [fs |-> m.fs,
                  res |-> IF m.err = "none" THEN Return(FALSE) ELSE Raise("OSError"),
                  calls |-> chk.calls \o <<"shutil.rmtree">>]

remove_directory(p, R) ==
    LET r == remove_directory_impl(fs, p, R)
    IN  /\ fs' = r.fs
        /\ before' = fs
        /\ callers' = callers
        /\ op' = "remove_directory"
        /\ arg' = p
        /\ flag' = FALSE
        /\ fault' = (IF Stat(fs, p) = "dir" THEN Subtree(fs, p) \ R ELSE {})
        /\ result' = r.res
        /\ calls' = r.calls
        /\ handles' = 0

(***************************************************************************)
(* is_utf8_encoded: the kind check, then the whole file is read under      *)
(* `with open(...)` and decoded.  `io` is what the OS does to the read:    *)
(* nothing ("ok"), or a refusal at "open" or at "read".                    *)
(***************************************************************************)
IsCont(b) == b >= 128 /\ b <= 191

(* A slip: a decoder that checks the shape of a sequence and not the range *)
(* of its second byte, so that overlong forms, surrogates and values above *)
(* U+10FFFF pass.                                                          *)
RECURSIVE utf8_decode_lax(_, _)
utf8_decode_lax(s, i) ==
    IF i > Len(s) THEN TRUE
    ELSE LET ch == s[i]
             n == Len(s) - i
         IN  IF ch < 128 THEN utf8_decode_lax(s, i + 1)
             ELSE IF ch < 194 THEN FALSE
             ELSE IF ch < 224 THEN
                  n >= 1 /\ IsCont(s[i + 1]) /\ utf8_decode_lax(s, i + 2)
             ELSE IF ch < 240 THEN
                  /\ n >= 2
                  /\ IsCont(s[i + 1])
                  /\ IsCont(s[i + 2])
                  /\ utf8_decode_lax(s, i + 3)
             ELSE IF ch < 245 THEN
                  /\ n >= 3
                  /\ IsCont(s[i + 1])
                  /\ IsCont(s[i + 2])
                  /\ IsCont(s[i + 3])
                  /\ utf8_decode_lax(s, i + 4)
             ELSE FALSE

(* bytes.decode('utf-8'), strict: TRUE iff s decodes from position i on.   *)
RECURSIVE utf8_decode(_, _)
utf8_decode(s, i) ==
    IF i > Len(s) THEN TRUE
    ELSE LET ch == s[i]
             n == Len(s) - i
         IN  IF ch < 128 THEN utf8_decode(s, i + 1)
             ELSE IF ch < 194 THEN FALSE
             ELSE IF ch < 224 THEN
                  /\ n >= 1
                  /\ IsCont(s[i + 1])
                  /\ utf8_decode(s, i + 2)
             ELSE IF ch < 240 THEN
                  /\ n >= 2
                  /\ IsCont(s[i + 1])
                  /\ (ch = 224 => s[i + 1] >= 160)
                  /\ (ch = 237 => s[i + 1] < 160)
                  /\ IsCont(s[i + 2])
                  /\ utf8_decode(s, i + 3)
             ELSE IF ch < 245 THEN
                  /\ n >= 3
                  /\ IsCont(s[i + 1])
                  /\ (ch = 240 => s[i + 1] >= 144)
                  /\ (ch = 244 => s[i + 1] < 144)
                  /\ IsCont(s[i + 2])
                  /\ IsCont(s[i + 3])
                  /\ utf8_decode(s, i + 4)
             ELSE FALSE

decode(s) == IF utf8_decode(s, 1) THEN "none" ELSE "UnicodeDecodeError"

(* What the OS can do to the read of p: nothing is read unless p is a file.*)
ReadFaults(f, p) ==
    IF Stat(f, p) = "file" THEN {NoFault, "open", "read"} ELSE {NoFault}

open(f, p, io) ==
    IF io = "open" THEN [err |-> "PermissionError", opened |-> 0]
    ELSE [err |-> "none", opened |-> 1]

read(f, p, io) ==
    IF io = "read" THEN [err |-> "OSError", data |-> <<>>]
    ELSE [err |-> "none", data |-> f[p].data]

(* A slip: file.close() after the decode, reached only when nothing was    *)
(* raised.                                                                 *)
with_exit_on_success(h, exc) == IF exc = "none" THEN h - 1 ELSE h

(* The context manager's exit: the handle is closed whatever `exc` is.     *)
with_exit(h, exc) == h - 1

with_open_read_decode(f, p, io) ==
    LET o == open(f, p, io)
    IN  IF o.err # "none"
        THEN [exc |-> o.err, handles |-> o.opened, calls |-> <<"open">>]
        ELSE LET r == read(f, p, io)
                 exc == IF r.err # "none" THEN r.err ELSE decode(r.data)
             IN  [exc |-> exc,
                  handles |-> with_exit(o.opened, exc),
                  calls |-> <<"open", "file.read", "file.close">>]

is_utf8_encoded_impl(f, p, io) ==
    LET chk == is_file_impl(f, p)
    IN  IF ~chk.val
        THEN [res |-> Raise("FileNotFoundError"), calls |-> chk.calls, handles |-> 0]
        ELSE LET b == with_open_read_decode(f, p, io)
             IN  [res |-> IF b.exc = "none" THEN Return(TRUE)
                          ELSE IF b.exc = "UnicodeDecodeError" THEN Return(FALSE)
                          ELSE Raise(b.exc),
                  calls |-> chk.calls \o b.calls,
                  handles |-> b.handles]

is_utf8_encoded(p, io) ==
    LET r == is_utf8_encoded_impl(fs, p, io)
    IN  Query("is_utf8_encoded", p, FALSE, io, r.res, r.calls, r.handles)

(***************************************************************************)
(* list_files: the kind check, then os.walk (every level) or os.listdir    *)
(* filtered by is_file (one level).  The list's order is the order the OS  *)
(* enumerates a directory in, which nothing fixes: the result is kept as   *)
(* the set of its elements, each a relative path.                          *)
(***************************************************************************)
BaseName(q) == q[Len(q)]

listdir(f, d) == {BaseName(q) : q \in Children(f, d)}

(* os.walk(top): one (root, dirs, files) triple for top and for every      *)
(* directory below it; an entry that is not a directory goes to files.     *)
RECURSIVE walk(_, _)
walk(f, top) ==
    LET ch == Children(f, top)
        dirs == {c \in ch : f[c].kind = "dir"}
        nondirs == ch \ dirs
    IN  {[root |-> top,
          dirs |-> {BaseName(c) : c \in dirs},
          files |-> {BaseName(c) : c \in nondirs}]}
        \cup UNION {walk(f, c) : c \in dirs}

join(root, name) == Append(root, name)

RECURSIVE CommonLen(_, _)
CommonLen(x, y) ==
    IF x = <<>> \/ y = <<>> \/ Head(x) # Head(y) THEN 0
    ELSE 1 + CommonLen(Tail(x), Tail(y))

relpath(path, start) ==
    LET i == CommonLen(path, start)
    IN  [k \in 1..(Len(start) - i) |-> ".."] \o SubSeq(path, i + 1, Len(path))

list_files_impl(f, p, inc) ==
    LET chk == is_directory_impl(f, p)
    IN  IF ~chk.val
        THEN [res |-> Raise("FileNotFoundError"), calls |-> chk.calls]
        ELSE IF inc
        THEN [res |-> Return({relpath(join(w[1].root, w[2]), p) :
                                w \in {x \in walk(f, p) \X Names : x[2] \in x[1].files}}),
              calls |-> chk.calls \o <<"os.walk">>]
        ELSE LET names == listdir(f, p)
             IN  [res |-> Return({<<n>> : n \in {x \in names :
                                                   is_file_impl(f, join(p, x)).val}}),
                  calls |-> chk.calls \o <<"os.listdir">>
                            \o [k \in 1..Cardinality(names) |-> "os.path.isfile"]]

list_files(p, inc) ==
    LET r == list_files_impl(fs, p, inc)
    IN  Query("list_files", p, inc, NoFault, r.res, r.calls, 0)

(***************************************************************************)
(* The world outside the component: the fixtures a test run puts on disk   *)
(* (regular files) and the special objects other programs leave there      *)
(* (FIFOs, sockets, device nodes).                                         *)
(***************************************************************************)
EnvCreate(p, node) ==
    /\ Stat(fs, Front(p)) = "dir"
    /\ p \notin DOMAIN fs
    /\ Cardinality(DOMAIN fs) < MaxObjects
    /\ fs' = fs @@ (p :> node)
    /\ before' = fs'
    /\ UNCHANGED <<op, arg, flag, fault, result, calls, handles, callers>>

(***************************************************************************)
(* The component is synchronous: a caller makes one call, takes its        *)
(* outcome and only then makes the next.  Idle is the caller between two   *)
(* calls; TakeOutcome is the caller taking the outcome of the last one.    *)
(***************************************************************************)
Callers == {"first", "second"}

(* No call is under way in any caller.                                     *)
NoCalls == [c \in Callers |-> [pc |-> "idle", cur |-> Cwd, saw |-> FALSE,
                               refused |-> FALSE, res |-> Return(FALSE)]]

Idle ==
    /\ callers = NoCalls
    /\ before = fs
    /\ op = "idle"
    /\ arg = Cwd
    /\ flag = FALSE
    /\ fault = NoFault
    /\ result = Return(FALSE)
    /\ calls = <<>>
    /\ handles = 0

TakeOutcome ==
    /\ op # "idle"
    /\ fs' = fs
    /\ callers' = callers
    /\ before' = fs
    /\ op' = "idle"
    /\ arg' = Cwd
    /\ flag' = FALSE
    /\ fault' = NoFault
    /\ result' = Return(FALSE)
    /\ calls' = <<>>
    /\ handles' = 0

Init ==
    /\ fs = EmptyFs
    /\ Idle

Next ==
    \/ TakeOutcome
    \/ op = "idle" /\ \E p \in Paths, d \in SampleContents : EnvCreate(p, FileNode(d))
    \/ op = "idle" /\ \E p \in Paths : EnvCreate(p, OtherNode)
    \/ op = "idle" /\ \E p \in Paths : is_file(p)
    \/ op = "idle" /\ \E p \in Paths : is_directory(p)
    \/ op = "idle" /\ \E p \in Paths : is_object(p)
    \/ op = "idle" /\ \E p \in Paths : get_file_size(p)
    \/ op = "idle" /\ \E p \in Paths : get_file_timestamp(p)
    \/ op = "idle" /\ \E p \in Paths : \E refuse \in MissingPrefixes(fs, p) \cup {Cwd} :
                         create_directory(p, refuse)
    \/ op = "idle" /\ \E p \in Paths : \E R \in RmtreeOutcomes(fs, p) :
                         remove_directory(p, R)
    \/ op = "idle" /\ \E p \in Paths : \E io \in ReadFaults(fs, p) :
                         is_utf8_encoded(p, io)
    \/ op = "idle" /\ \E p \in Paths : \E inc \in BOOLEAN : list_files(p, inc)

Spec == Init /\ [][Next]_vars

(***************************************************************************)
(* The decoding specification: one regular file whose content ranges over  *)
(* every byte string up to MaxLen, and the calls that read it.             *)
(***************************************************************************)
InitUtf8 ==
    /\ fs \in {(p :> FileNode(d)) : p \in {<<"a">>}, d \in Contents}
    /\ Idle

NextUtf8 ==
    \/ TakeOutcome
    \/ op = "idle" /\ \E p \in TopPaths : \E io \in ReadFaults(fs, p) :
                         is_utf8_encoded(p, io)
    \/ op = "idle" /\ \E p \in TopPaths : get_file_size(p)

SpecUtf8 == InitUtf8 /\ [][NextUtf8]_vars

(***************************************************************************)
(* The race specification: two callers run create_directory(arg) at once   *)
(* on a path where nothing exists.  Nothing makes a call atomic, so each   *)
(* caller takes the OS calls of its create_directory one at a time: the    *)
(* existence check ("check"), then inside os.makedirs the path.exists      *)
(* probes that climb to the deepest existing ancestor ("descend") and the  *)
(* mkdirs that come back down from it ("mkdir").  `cur` is the name the    *)
(* innermost os.makedirs frame works on.                                   *)
(***************************************************************************)
RaceFrame == <<fs, before, op, arg, flag, fault, result, calls, handles>>

Finish(c, res) == [callers[c] EXCEPT !.pc = "done", !.res = res]

(* Line 85-87: is_object, and FileExistsError when it finds something.     *)
RaceCheck(c) ==
    /\ callers[c].pc = "check"
    /\ LET chk == is_object_impl(fs, arg)
       IN  callers' = [callers EXCEPT ![c] =
                         IF chk.val
                         THEN [Finish(c, Raise("FileExistsError")) EXCEPT !.saw = TRUE]
                         ELSE [@ EXCEPT !.pc = "descend", !.cur = arg]]
    /\ UNCHANGED RaceFrame

(* os.makedirs: `if head and tail and not path.exists(head)` calls itself  *)
(* on head; otherwise the frame goes on to its mkdir.                      *)
RaceDescend(c) ==
    /\ callers[c].pc = "descend"
    /\ LET head == Front(callers[c].cur)
       IN  callers' = [callers EXCEPT ![c] =
                         IF head # Cwd /\ StatFails(fs, head)
                         THEN [@ EXCEPT !.cur = head]
                         ELSE [@ EXCEPT !.pc = "mkdir"]]
    /\ UNCHANGED RaceFrame

(* os.makedirs: mkdir(name).  An inner frame that returns, or that raises  *)
(* FileExistsError (which its caller passes over), hands over to the frame *)
(* one component below; anything the outermost frame raises, and anything  *)
(* else an inner frame raises, reaches line 91 and leaves as OSError.      *)
RaceMkdir(c, refuse) ==
    /\ callers[c].pc = "mkdir"
    /\ LET cur == callers[c].cur
           m == mkdir(fs, cur, refuse)
           noted == [callers[c] EXCEPT !.refused = @ \/ m.err = "PermissionError"]
       IN  /\ fs' = m.fs
           /\ callers' = [callers EXCEPT ![c] =
                IF cur = arg
                THEN [noted EXCEPT !.pc = "done",
                                   !.res = IF m.err = "none" THEN Return(FALSE)
                                           ELSE Raise("OSError")]
                ELSE IF m.err \in {"none", "FileExistsError"}
                THEN [noted EXCEPT !.cur = SubSeq(arg, 1, Len(cur) + 1)]
                ELSE [noted EXCEPT !.pc = "done", !.res = Raise("OSError")]]
    /\ UNCHANGED <<before, op, arg, flag, fault, result, calls, handles>>

(* The filesystems a race on p starts from: some of p's ancestors exist,   *)
(* all directories or the deepest of them a regular file; p does not.      *)
RECURSIVE Chain(_, _)
Chain(p, k) ==
    IF k = 0 THEN EmptyFs ELSE Chain(p, k - 1) @@ (SubSeq(p, 1, k) :> DirNode)

RaceStarts(p) ==
    {Chain(p, k) : k \in 0..(Len(p) - 1)}
    \cup {Chain(p, k - 1) @@ (SubSeq(p, 1, k) :> FileNode(<<65>>)) : k \in 1..(Len(p) - 1)}

InitRace ==
    /\ arg \in Paths
    /\ fs \in RaceStarts(arg)
    /\ before = fs
    /\ op = "concurrent"
    /\ flag = FALSE
    /\ fault = NoFault
    /\ result = Return(FALSE)
    /\ calls = <<>>
    /\ handles = 0
    /\ callers = [c \in Callers |-> [pc |-> "check", cur |-> arg, saw |-> FALSE,
                                     refused |-> FALSE, res |-> Return(FALSE)]]

NextRace ==
    \/ \E c \in Callers : RaceCheck(c)
    \/ \E c \in Callers : RaceDescend(c)
    \/ \E c \in Callers : \E refuse \in {Cwd, callers[c].cur} : RaceMkdir(c, refuse)

SpecRace == InitRace /\ [][NextRace]_vars

(***************************************************************************)
(* Every reachable filesystem is a tree: whatever exists sits in the       *)
(* working directory or in a directory that exists.                        *)
(***************************************************************************)
KindAt(f, p) == IF p \in DOMAIN f THEN f[p].kind ELSE "none"

WellFormed ==
    \A p \in DOMAIN fs : Len(p) > 1 => KindAt(fs, Front(p)) = "dir"

Range(s) == {s[i] : i \in 1..Len(s)}

IsFileAt(f, p) == KindAt(f, p) = "file"
IsDirAt(f, p) == KindAt(f, p) = "dir"

Unchanged(S) == \A q \in S : q \in DOMAIN fs /\ fs[q] = before[q]

(***************************************************************************)
(* C1.  create_directory(P) on a path where an object exists (a regular    *)
(* file, a directory or any other) raises FileExistsError, never reaches   *)
(* os.makedirs and leaves the filesystem as it was; so a second            *)
(* create_directory(P) right after a successful one fails this way.        *)
(***************************************************************************)
C1_CreateOnExistingFails ==
    (op = "create_directory" /\ KindAt(before, arg) # "none")
        => /\ result.tag = "FileExistsError"
           /\ "os.makedirs" \notin Range(calls)
           /\ fs = before

C1_Witness ==
    /\ op = "create_directory"
    /\ IsDirAt(before, arg)
    /\ Len(arg) = 2
    /\ result.tag = "FileExistsError"

(***************************************************************************)
(* C2.  After a remove_directory(D) that returns, is_object is false for D *)
(* and for every path below D, and every object outside D's subtree is     *)
(* what it was.                                                            *)
(***************************************************************************)
C2_RemoveTakesWholeSubtree ==
    (op = "remove_directory" /\ result.tag = "return")
        => /\ IsDirAt(before, arg)
           /\ \A q \in Paths : IsPrefix(arg, q) => ~is_object_impl(fs, q).val
           /\ Unchanged(DOMAIN before \ Subtree(before, arg))
           /\ DOMAIN fs \subseteq DOMAIN before

C2_Witness ==
    /\ op = "remove_directory"
    /\ result.tag = "return"
    /\ \E q \in Subtree(before, arg) : Len(q) = Len(arg) + 2 /\ IsFileAt(before, q)
    /\ DOMAIN fs # {}

(***************************************************************************)
(* C3.  P is creatable when nothing exists at P and every ancestor of P    *)
(* that exists is a directory.                                             *)
(***************************************************************************)
Creatable(f, p) ==
    /\ p \notin DOMAIN f
    /\ \A q \in Prefixes(p) : q \in DOMAIN f => IsDirAt(f, q)

(* C3 as claimed: create_directory on a creatable P succeeds, P and every  *)
(* ancestor that was missing are directories afterwards and every object   *)
(* that existed is unchanged.                                              *)
C3_Claimed ==
    (op = "create_directory" /\ Creatable(before, arg))
        => /\ result.tag = "return"
           /\ \A q \in Prefixes(arg) : is_directory_impl(fs, q).val
           /\ Unchanged(DOMAIN before)

(* C3 as amended: create_directory on a creatable P succeeds exactly when  *)
(* the OS refuses none of the mkdirs and raises OSError when it refuses    *)
(* one; on success P and all its ancestors are directories, on failure the *)
(* ancestors above the refused one are; in both cases every object that    *)
(* existed before is unchanged.                                            *)
C3_CreateMakesMissingAncestors ==
    (op = "create_directory" /\ Creatable(before, arg))
        => /\ result.tag = (IF fault = Cwd THEN "return" ELSE "OSError")
           /\ result.tag = "return"
                => \A q \in Prefixes(arg) : is_directory_impl(fs, q).val
           /\ result.tag = "OSError"
                => /\ ~is_object_impl(fs, arg).val
                   /\ \A q \in Prefixes(arg) :
                        Len(q) < Len(fault) => is_directory_impl(fs, q).val
           /\ Unchanged(DOMAIN before)

C3_Witness ==
    /\ op = "create_directory"
    /\ result.tag = "return"
    /\ Len(arg) = 3
    /\ DOMAIN before # {}
    /\ Cardinality(DOMAIN fs) = Cardinality(DOMAIN before) + 2

(***************************************************************************)
(* C4.  The file-only operations raise FileNotFoundError exactly when the  *)
(* path is not an existing regular file, the directory-only operations     *)
(* exactly when it is not an existing directory, and a call that raises it *)
(* changes nothing.                                                        *)
(***************************************************************************)
FileOps == {"get_file_size", "get_file_timestamp", "is_utf8_encoded"}
DirOps == {"remove_directory", "list_files"}

C4_NotFoundIffWrongKind ==
    /\ op \in FileOps
         => (result.tag = "FileNotFoundError" <=> ~IsFileAt(before, arg))
    /\ op \in DirOps
         => (result.tag = "FileNotFoundError" <=> ~IsDirAt(before, arg))
    /\ (op \in FileOps \cup DirOps /\ result.tag = "FileNotFoundError")
         => fs = before

C4_Witness ==
    /\ op = "list_files"
    /\ flag
    /\ IsFileAt(before, arg)
    /\ result.tag = "FileNotFoundError"

(***************************************************************************)
(* C5.  The three predicates always return, and what they return sorts the *)
(* path: all three false where nothing exists; is_file and is_object true  *)
(* and is_directory false on a regular file; is_directory and is_object    *)
(* true and is_file false on a directory.                                  *)
(***************************************************************************)
Predicates == {"is_file", "is_directory", "is_object"}

C5_PredicatesClassify ==
    op \in Predicates
        => /\ result.tag = "return"
           /\ KindAt(fs, arg) = "none" => result.val = FALSE
           /\ KindAt(fs, arg) = "file"
                => result.val = (op \in {"is_file", "is_object"})
           /\ KindAt(fs, arg) = "dir"
                => result.val = (op \in {"is_directory", "is_object"})

C5_Witness ==
    /\ op = "is_object"
    /\ IsDirAt(fs, arg)
    /\ Len(arg) = 2
    /\ result.val = TRUE

(***************************************************************************)
(* C6 as claimed: list_files(D, FALSE) returns exactly the names of D's    *)
(* children that are regular files, list_files(D, TRUE) exactly the paths  *)
(* relative to D of the regular files at any depth below D.                *)
(***************************************************************************)
RegularFilesBelow(f, d) ==
    {SubSeq(q, Len(d) + 1, Len(q)) : q \in {x \in Subtree(f, d) : IsFileAt(f, x)}}

RegularFilesIn(f, d) ==
    {<<BaseName(q)>> : q \in {x \in Children(f, d) : IsFileAt(f, x)}}

C6_Claimed ==
    (op = "list_files" /\ result.tag = "return")
        => result.val = (IF flag THEN RegularFilesBelow(fs, arg)
                         ELSE RegularFilesIn(fs, arg))

(***************************************************************************)
(* C7 as claimed: every path list_files(D, TRUE) returns, joined to D, is  *)
(* a regular file.                                                         *)
(***************************************************************************)
C7_Claimed ==
    (op = "list_files" /\ flag /\ result.tag = "return")
        => \A r \in result.val : is_file_impl(fs, arg \o r).val

(***************************************************************************)
(* UTF-8 as the Unicode standard defines it: a byte string is valid when   *)
(* it is a concatenation of encodings of scalar values (U+0000..U+10FFFF   *)
(* without the surrogates U+D800..U+DFFF).                                 *)
(***************************************************************************)
Encode(cp) ==
    IF cp < 128 THEN <<cp>>
    ELSE IF cp < 2048 THEN <<192 + (cp \div 64), 128 + (cp % 64)>>
    ELSE IF cp < 65536
    THEN <<224 + (cp \div 4096), 128 + ((cp \div 64) % 64), 128 + (cp % 64)>>
    ELSE <<240 + (cp \div 262144), 128 + ((cp \div 4096) % 64),
           128 + ((cp \div 64) % 64), 128 + (cp % 64)>>

IsScalar(cp) == cp >= 0 /\ cp <= 1114111 /\ ~(cp >= 55296 /\ cp <= 57343)

Payload(seg) ==
    IF Len(seg) = 1 THEN seg[1]
    ELSE IF Len(seg) = 2 THEN ((seg[1] % 32) * 64) + (seg[2] % 64)
    ELSE IF Len(seg) = 3
    THEN ((seg[1] % 16) * 4096) + ((seg[2] % 64) * 64) + (seg[3] % 64)
    ELSE ((seg[1] % 8) * 262144) + ((seg[2] % 64) * 4096)
         + ((seg[3] % 64) * 64) + (seg[4] % 64)

EncodesScalar(seg) == IsScalar(Payload(seg)) /\ Encode(Payload(seg)) = seg

RECURSIVE ValidUtf8(_)
ValidUtf8(s) ==
    \/ s = <<>>
    \/ \E n \in 1..4 :
         /\ n <= Len(s)
         /\ EncodesScalar(SubSeq(s, 1, n))
         /\ ValidUtf8(SubSeq(s, n + 1, Len(s)))

(* C8 as claimed: on every existing regular file is_utf8_encoded returns   *)
(* whether the content is valid UTF-8.                                     *)
C8_Claimed ==
    (op = "is_utf8_encoded" /\ IsFileAt(before, arg))
        => /\ result.tag = "return"
           /\ result.val = ValidUtf8(before[arg].data)

(* C8 as amended: on every existing regular file that the OS lets the call *)
(* open and read, is_utf8_encoded returns whether the content is valid     *)
(* UTF-8; when the open or the read is refused the OS error reaches the    *)
(* caller; a decoding failure never does.                                  *)
C8_Utf8VerdictWhenReadable ==
    (op = "is_utf8_encoded" /\ IsFileAt(before, arg))
        => /\ fault = NoFault
                => /\ result.tag = "return"
                   /\ result.val = ValidUtf8(before[arg].data)
           /\ fault # NoFault => result.tag \in {"PermissionError", "OSError"}
           /\ result.tag # "UnicodeDecodeError"

C8_Witness ==
    /\ op = "is_utf8_encoded"
    /\ fault = NoFault
    /\ result.tag = "return"
    /\ result.val = FALSE
    /\ Len(before[arg].data) = 4
    /\ before[arg].data[1] = 240

(***************************************************************************)
(* C9.  However is_utf8_encoded ends, by returning either verdict or by    *)
(* raising out of the read, it leaves no handle open.                      *)
(***************************************************************************)
C9_NoHandleLeftOpen ==
    op = "is_utf8_encoded" => handles = 0

C9_Witness ==
    /\ op = "is_utf8_encoded"
    /\ "file.read" \in Range(calls)
    /\ fault = "read"
    /\ result.tag = "OSError"
    /\ handles = 0

(***************************************************************************)
(* C10 as claimed: no operation makes more than one call into the OS.      *)
(***************************************************************************)
Checked == FileOps \cup DirOps \cup {"create_directory"}

C10_Claimed ==
    op \in Predicates \cup Checked => Len(calls) <= 1

(* C10 as amended: a predicate makes exactly one call into the OS; each of *)
(* the other six makes exactly one, its existence or kind check, when the  *)
(* check rejects the call, and otherwise the check and then at least one   *)
(* more.                                                                   *)
C10_OneCallOnlyWhenRejected ==
    /\ op \in Predicates => Len(calls) = 1
    /\ op \in Checked
         => /\ Len(calls) >= 1
            /\ calls[1] \in {"os.path.isfile", "os.path.isdir", "os.path.exists"}
            /\ Len(calls) = 1
                 <=> result.tag \in {"FileNotFoundError", "FileExistsError"}

C10_Witness ==
    /\ op = "list_files"
    /\ ~flag
    /\ result.tag = "return"
    /\ Len(calls) = 4

(***************************************************************************)
(* The race.                                                               *)
(***************************************************************************)
BothDone == \A c \in Callers : callers[c].pc = "done"

Succeeded == {c \in Callers : callers[c].res.tag = "return"}

NothingRefused == \A c \in Callers : ~callers[c].refused

(* A caller that runs alone, the other not yet started, ends as the call   *)
(* taken in one step does.                                                 *)
RaceAloneIsOneStep ==
    \A c \in Callers :
        (callers[c].pc = "done" /\ \A d \in Callers \ {c} : callers[d].pc = "check")
            => \E refuse \in Prefixes(arg) \cup {Cwd} :
                 LET r == create_directory_impl(before, arg, refuse)
                 IN  r.fs = fs /\ r.res = callers[c].res

(* What the race does guarantee: at most one of the two calls returns; a   *)
(* call that does not return raises FileExistsError exactly when its own   *)
(* existence check found P, and then the other call has returned; if a     *)
(* call returned P is a directory, and on a creatable P with nothing       *)
(* refused by the OS exactly one call returns; nothing that was there      *)
(* before is touched.                                                      *)
RaceHasOneWinner ==
    BothDone
        => /\ Cardinality(Succeeded) <= 1
           /\ \A c \in Callers :
                /\ callers[c].res.tag \in {"return", "FileExistsError", "OSError"}
                /\ callers[c].res.tag = "FileExistsError" <=> callers[c].saw
                /\ callers[c].saw => Succeeded = Callers \ {c}
           /\ Succeeded # {} => is_directory_impl(fs, arg).val
           /\ (Creatable(before, arg) /\ NothingRefused)
                => /\ Cardinality(Succeeded) = 1
                   /\ is_directory_impl(fs, arg).val
           /\ Unchanged(DOMAIN before)

(* C11: when two callers run create_directory(P) at once on a path P at    *)
(* which nothing exists, then once both have finished at most one has      *)
(* returned, the other has raised FileExistsError and P is a directory.    *)
(* Stated for a P that one call alone would create and an OS that refuses  *)
(* no mkdir, so that only the interleaving decides.                        *)
C11_Claimed ==
    (BothDone /\ Creatable(before, arg) /\ NothingRefused)
        => /\ Cardinality(Succeeded) <= 1
           /\ \E c \in Callers :
                /\ callers[c].res.tag = "FileExistsError"
                /\ \A d \in Callers \ {c} :
                     callers[d].res.tag \in {"return", "FileExistsError"}
           /\ is_directory_impl(fs, arg).val

====
